---------------------------- MODULE Spec2Model ----------------------------
(***************************************************************************)
(* Largo: a minimal interpreter for a parenthesised expression language.   *)
(* The model follows src/src/lib.rs: tokenize, parse / read_seq /          *)
(* parse_atom, default_env, eval, string_to_exp, the Display rendering and *)
(* run_repl.                                                               *)
(*                                                                         *)
(* Text is a sequence of one-character strings; a token is a non-empty     *)
(* sequence of characters.  An f64 is modelled by an integer: the input    *)
(* alphabets below hold only the digits 1 and 2 and the signs, so every    *)
(* numeric token and every sum or difference the model reaches is a small  *)
(* integer, which f64 represents exactly (-0.0 and 0.0 compare equal under *)
(* Expr's PartialEq and are one value here).                               *)
(***************************************************************************)
EXTENDS Integers, Sequences, FiniteSets, TLC

VARIABLES pc, text, tokens, pres, exp, env, eres, out, xs, stack

vars == <<pc, text, tokens, pres, exp, env, eres, out, xs, stack>>

(***************************************************************************)
(* Bounds of the model.                                                    *)
(***************************************************************************)
MaxText == 5
MaxTokens == 5
MaxNodes == 5
MaxArith == 8
MaxLines == 3

(***************************************************************************)
(* Characters.                                                             *)
(***************************************************************************)
Whitespace == {" ", "\t"}
Parens == {"(", ")"}
DigitChars == <<"0", "1", "2", "3", "4", "5", "6", "7", "8", "9">>

IsDigit(c) == \E i \in 1..10 : DigitChars[i] = c
DigitVal(c) == (CHOOSE i \in 1..10 : DigitChars[i] = c) - 1

SeqsUpTo(S, n) == UNION {[1..k -> S] : k \in 0..n}

(***************************************************************************)
(* enum Expr and enum Error.                                               *)
(***************************************************************************)
Symbol(s) == [kind |-> "Symbol", name |-> s]
Number(n) == [kind |-> "Number", num |-> n]
List(l) == [kind |-> "List", items |-> l]
Func(f) == [kind |-> "Func", fn |-> f]

\* Error::Reason(String).  The backquotes of the code's messages are written
\* as apostrophes; the symbol of "Unexpected symbol" is kept in sym.
Reason(m) == [msg |-> m, sym |-> <<>>]
ReasonSym(m, s) == [msg |-> m, sym |-> s]
Err(r) == [ok |-> FALSE, reason |-> r]

(***************************************************************************)
(* tokenize: pad every parenthesis with spaces, then split on whitespace.  *)
(***************************************************************************)
RECURSIVE replace(_, _, _)
replace(s, from, to) ==
    IF s = <<>> THEN <<>>
    ELSE (IF Head(s) = from THEN to ELSE <<Head(s)>>) \o replace(Tail(s), from, to)

RECURSIVE split_whitespace_from(_, _, _)
split_whitespace_from(s, cur, acc) ==
    IF s = <<>> THEN (IF cur = <<>> THEN acc ELSE Append(acc, cur))
    ELSE IF Head(s) \in Whitespace
         THEN split_whitespace_from(Tail(s), <<>>,
                                    IF cur = <<>> THEN acc ELSE Append(acc, cur))
         ELSE split_whitespace_from(Tail(s), Append(cur, Head(s)), acc)

split_whitespace(s) == split_whitespace_from(s, <<>>, <<>>)

tokenize_unpadded_close(expr) ==
    split_whitespace(replace(expr, "(", <<" ", "(", " ">>))

tokenize(expr) ==
    split_whitespace(replace(replace(expr, "(", <<" ", "(", " ">>),
                             ")", <<" ", ")", " ">>))


(***************************************************************************)
(* str::parse::<f64> and f64::to_string, on the characters of the model:   *)
(* an optional sign followed by one or more digits is a number, anything   *)
(* else is not (no character of the model's alphabets spells a fraction,   *)
(* an exponent, inf or nan).  The rendering of an integral f64 is its      *)
(* decimal digits, with a leading - when negative and never a leading +.   *)
(***************************************************************************)
RECURSIVE DecVal(_)
DecVal(ds) ==
    IF ds = <<>> THEN 0
    ELSE 10 * DecVal(SubSeq(ds, 1, Len(ds) - 1)) + DigitVal(ds[Len(ds)])

f64_from_str(token) ==
    LET signed == token # <<>> /\ Head(token) \in {"+", "-"}
        ds == IF signed THEN Tail(token) ELSE token
    IN  IF ds # <<>> /\ \A i \in 1..Len(ds) : IsDigit(ds[i])
        THEN [ok |-> TRUE,
              num |-> IF signed /\ Head(token) = "-" THEN 0 - DecVal(ds) ELSE DecVal(ds)]
        ELSE [ok |-> FALSE, num |-> 0]

RECURSIVE NatChars(_)
NatChars(n) ==
    IF n < 10 THEN <<DigitChars[n + 1]>>
    ELSE Append(NatChars(n \div 10), DigitChars[(n % 10) + 1])

f64_to_string(n) == IF n < 0 THEN <<"-">> \o NatChars(0 - n) ELSE NatChars(n)

(***************************************************************************)
(* impl fmt::Display for Expr.                                             *)
(***************************************************************************)
RECURSIVE join(_, _)

join_no_sep(l, sep) ==
    IF l = <<>> THEN <<>>
    ELSE IF Len(l) = 1 THEN l[1]
    ELSE l[1] \o join(Tail(l), sep)

join(l, sep) ==
    IF l = <<>> THEN <<>>
    ELSE IF Len(l) = 1 THEN l[1]
    ELSE l[1] \o sep \o join(Tail(l), sep)

RECURSIVE Display(_)
Display(e) ==
    CASE e.kind = "Symbol" -> e.name
      [] e.kind = "Number" -> f64_to_string(e.num)
      [] e.kind = "List" ->
            <<"(">> \o join([i \in 1..Len(e.items) |-> Display(e.items[i])], <<",">>)
                    \o <<")">>
      [] e.kind = "Func" -> <<"F", "u", "n", "c", "t", "i", "o", "n">>

(***************************************************************************)
(* parse, read_seq and parse_atom.  read_seq's loop is read_seq_loop, with *)
(* the loop's variables result and xs as its parameters.                   *)
(***************************************************************************)
OkParse(e, rest) == [ok |-> TRUE, exp |-> e, rest |-> rest]

parse_atom(token) ==
    LET parse_result == f64_from_str(token)
    IN  IF parse_result.ok THEN Number(parse_result.num) ELSE Symbol(token)

RECURSIVE parse(_), read_seq_loop(_, _)

read_seq_loop_keep_close(result, xs0) ==
    IF xs0 = <<>> THEN Err(Reason("Could not find closing ')'"))
    ELSE IF Head(xs0) = <<")">> THEN OkParse(List(result), xs0)
    ELSE LET r == parse(xs0)
         IN  IF ~r.ok THEN r ELSE read_seq_loop(Append(result, r.exp), r.rest)

read_seq_loop_drop_last(result, xs0) ==
    IF xs0 = <<>> THEN Err(Reason("Could not find closing ')'"))
    ELSE IF Head(xs0) = <<")">> THEN OkParse(List(result), Tail(xs0))
    ELSE LET r == parse(xs0)
         IN  IF ~r.ok THEN r ELSE read_seq_loop(<<r.exp>>, r.rest)

read_seq_loop(result, xs0) ==
    IF xs0 = <<>> THEN Err(Reason("Could not find closing ')'"))
    ELSE IF Head(xs0) = <<")">> THEN OkParse(List(result), Tail(xs0))
    ELSE LET r == parse(xs0)
         IN  IF ~r.ok THEN r ELSE read_seq_loop(Append(result, r.exp), r.rest)

read_seq(toks) == read_seq_loop(<<>>, toks)

parse(toks) ==
    IF toks = <<>> THEN Err(Reason("Could not get token"))
    ELSE LET token == Head(toks)
             rest == Tail(toks)
         IN  IF token = <<"(">> THEN read_seq(rest)
             ELSE IF token = <<")">> THEN Err(Reason("Unexpected ')'"))
             ELSE OkParse(parse_atom(token), rest)

(***************************************************************************)
(* The text pipeline: a text is tokenized, the tokens are parsed, the      *)
(* parsed tree is rendered with Display and the rendering is tokenized     *)
(* again.                                                                  *)
(***************************************************************************)
TokChars == {"(", ")", " ", "\t", "a", "1"}
RoundChars == {"(", ")", " ", "+", "1", ","}

Unset == <<>>

InitText ==
    /\ text \in SeqsUpTo(TokChars, MaxText) \cup SeqsUpTo(RoundChars, MaxText)
    /\ pc = "text"
    /\ tokens = Unset /\ pres = Unset /\ exp = Unset /\ env = Unset
    /\ eres = Unset /\ out = Unset /\ xs = Unset /\ stack = Unset

Tokenize ==
    /\ pc = "text"
    /\ tokens' = tokenize(text)
    /\ pc' = "tokens"
    /\ UNCHANGED <<text, pres, exp, env, eres, out, xs, stack>>

ParseTokens ==
    /\ pc = "tokens"
    /\ pres' = parse(tokens)
    /\ pc' = "parsed"
    /\ UNCHANGED <<text, tokens, exp, env, eres, out, xs, stack>>

Render ==
    /\ pc = "parsed"
    /\ pres.ok
    /\ out' = Display(pres.exp)
    /\ pc' = "rendered"
    /\ UNCHANGED <<text, tokens, pres, exp, env, eres, xs, stack>>

Retokenize ==
    /\ pc = "rendered"
    /\ xs' = tokenize(out)
    /\ pc' = "retokenized"
    /\ UNCHANGED <<text, tokens, pres, exp, env, eres, out, stack>>

NextText == Tokenize \/ ParseTokens \/ Render \/ Retokenize

SpecText == InitText /\ [][NextText]_vars

(***************************************************************************)
(* Tokens read off the text directly: a token starts at every parenthesis  *)
(* and at every atom character that follows no atom character, and runs to *)
(* the last character of that maximal run.                                 *)
(***************************************************************************)
IsAtomChar(c) == c \notin (Whitespace \cup Parens)

Starts(t) ==
    {i \in 1..Len(t) :
        \/ t[i] \in Parens
        \/ IsAtomChar(t[i]) /\ (i = 1 \/ ~IsAtomChar(t[i - 1]))}

EndOf(t, i) ==
    IF t[i] \in Parens THEN i
    ELSE CHOOSE j \in i..Len(t) :
            /\ \A k \in i..j : IsAtomChar(t[k])
            /\ (j = Len(t) \/ ~IsAtomChar(t[j + 1]))

KthStart(t, k) ==
    CHOOSE i \in Starts(t) : Cardinality({j \in Starts(t) : j < i}) = k - 1

RefTokens(t) ==
    [k \in 1..Cardinality(Starts(t)) |->
        SubSeq(t, KthStart(t, k), EndOf(t, KthStart(t, k)))]

Insert(t, i, w) == SubSeq(t, 1, i) \o <<w>> \o SubSeq(t, i + 1, Len(t))

Boundary(t, i) ==
    i = 0 \/ i = Len(t) \/ ~IsAtomChar(t[i]) \/ ~IsAtomChar(t[i + 1])

WellFormedToken(tok) ==
    /\ tok # <<>>
    /\ \A i \in 1..Len(tok) : tok[i] \notin Whitespace
    /\ (\E i \in 1..Len(tok) : tok[i] \in Parens) => Len(tok) = 1

\* C7: tokenize yields, in input order, every parenthesis as its own token and
\* every maximal run of other non-whitespace characters as one atom; no token
\* is empty, holds whitespace, or holds a parenthesis unless it is exactly
\* that parenthesis; whitespace added at a token boundary, or one whitespace
\* character changed into another, leaves the output the same; and a text of
\* whitespace only (or empty) yields no token.
TokenizeMaximalRuns ==
    pc = "tokens" =>
        /\ tokens = RefTokens(text)
        /\ \A k \in 1..Len(tokens) : WellFormedToken(tokens[k])
        /\ \A i \in 0..Len(text), w \in Whitespace :
              Boundary(text, i) => tokenize(Insert(text, i, w)) = tokens
        /\ \A i \in 1..Len(text), w \in Whitespace :
              text[i] \in Whitespace => tokenize([text EXCEPT ![i] = w]) = tokens
        /\ (\A i \in 1..Len(text) : text[i] \in Whitespace) => tokens = <<>>

TokenizeWitness ==
    /\ pc = "tokens"
    /\ Len(tokens) = 3
    /\ tokens[1] = <<"(">>
    /\ Len(tokens[2]) = 2
    /\ \E i \in 1..Len(text) : text[i] = "\t"

(***************************************************************************)
(* The round trip text -> tokens -> tree -> rendering -> tokens.           *)
(***************************************************************************)
RECURSIVE Depths(_, _)
Depths(toks, d) ==
    IF toks = <<>> THEN <<>>
    ELSE LET d2 == IF Head(toks) = <<"(">> THEN d + 1
                   ELSE IF Head(toks) = <<")">> THEN d - 1 ELSE d
         IN  <<d2>> \o Depths(Tail(toks), d2)

\* Every ) closes an open ( and every ( is closed.
Balanced(toks) ==
    LET ds == Depths(toks, 0)
    IN  /\ \A i \in 1..Len(ds) : ds[i] >= 0
        /\ (toks # <<>> => ds[Len(ds)] = 0)

HasComma(tok) == \E i \in 1..Len(tok) : tok[i] = ","

\* The decimal rendering of a numeric atom over the model's characters: a
\* leading + is dropped; every other atom is rendered as it is written.
Canonical(tok) ==
    IF /\ Len(tok) > 1
       /\ tok[1] = "+"
       /\ \A i \in 2..Len(tok) : IsDigit(tok[i])
    THEN Tail(tok) ELSE tok

\* C8 as stated: for text of balanced parentheses and atoms, tokenizing the
\* rendering of the parsed tree gives back the tokens of the text.
RoundTripExact ==
    (pc = "retokenized" /\ Balanced(tokens)) => xs = tokens

\* C8 amended: for text that is exactly one balanced expression whose atoms
\* hold no comma, tokenizing the rendering with its "," separators read as
\* whitespace gives the tokens of the text, each numeric atom in its decimal
\* rendering.
RoundTripUpToSeparator ==
    (/\ pc = "retokenized"
     /\ pres.rest = <<>>
     /\ \A k \in 1..Len(tokens) : ~HasComma(tokens[k]))
    => tokenize(replace(out, ",", <<" ">>))
          = [k \in 1..Len(tokens) |-> Canonical(tokens[k])]

RoundTripWitness ==
    /\ pc = "retokenized"
    /\ pres.rest = <<>>
    /\ \A k \in 1..Len(tokens) : ~HasComma(tokens[k])
    /\ pres.exp.kind = "List"
    /\ Len(pres.exp.items) = 2
    /\ pres.exp.items = <<Symbol(<<"+">>), Number(1)>>
    /\ out = <<"(", "+", ",", "1", ")">>
    /\ xs # tokens

(***************************************************************************)
(* parse applied to a token sequence.                                      *)
(***************************************************************************)
TokenAlphabet == {<<"(">>, <<")">>, <<"a">>, <<"1">>, <<"+", "1">>}

InitParse ==
    /\ tokens \in SeqsUpTo(TokenAlphabet, MaxTokens)
    /\ pc = "tokens"
    /\ text = Unset /\ pres = Unset /\ exp = Unset /\ env = Unset
    /\ eres = Unset /\ out = Unset /\ xs = Unset /\ stack = Unset

NextParse == ParseTokens

SpecParse == InitParse /\ [][NextParse]_vars

\* The length of the first complete expression of toks: 1 for a leading atom,
\* the place of the ) matching a leading (, and 0 when there is none.
FirstExprLen(toks) ==
    IF toks = <<>> \/ Head(toks) = <<")">> THEN 0
    ELSE IF Head(toks) # <<"(">> THEN 1
    ELSE LET ds == Depths(toks, 0)
             closes == {k \in 1..Len(toks) : ds[k] = 0}
         IN  IF closes = {} THEN 0
             ELSE CHOOSE k \in closes : \A j \in closes : k <= j

\* The tree written out again: a list is ( its children ), a leaf is itself.
RECURSIVE Flatten(_), FlattenAll(_)
Flatten(e) ==
    IF e.kind = "List"
    THEN <<[paren |-> "(", leaf |-> e]>> \o FlattenAll(e.items)
            \o <<[paren |-> ")", leaf |-> e]>>
    ELSE <<[paren |-> "", leaf |-> e]>>
FlattenAll(l) == IF l = <<>> THEN <<>> ELSE Flatten(Head(l)) \o FlattenAll(Tail(l))

IsNumeral(tok) ==
    LET c == Canonical(tok)
        ds == IF Head(c) = "-" THEN Tail(c) ELSE c
    IN  ds # <<>> /\ \A i \in 1..Len(ds) : IsDigit(ds[i])

LeafMatches(e, tok) ==
    IF IsNumeral(tok)
    THEN e.kind = "Number" /\ f64_to_string(e.num) = Canonical(tok)
    ELSE e.kind = "Symbol" /\ e.name = tok

ItemMatches(item, tok) ==
    IF item.paren # "" THEN tok = <<item.paren>>
    ELSE tok \notin {<<"(">>, <<")">>} /\ LeafMatches(item.leaf, tok)

RECURSIVE NoFunc(_)
NoFunc(e) ==
    /\ e.kind \in {"Symbol", "Number", "List"}
    /\ e.kind = "List" => \A i \in 1..Len(e.items) : NoFunc(e.items[i])

\* C3: when the tokens begin with one complete well-formed expression, parse
\* succeeds; its tree, written out again, is that expression token for token
\* (one child per sub-expression, in order) and holds no Func; the remainder
\* is exactly the tokens after that expression.
ParseFirstExpression ==
    (pc = "parsed" /\ FirstExprLen(tokens) > 0) =>
        LET k == FirstExprLen(tokens)
            flat == IF pres.ok THEN Flatten(pres.exp) ELSE <<>>
        IN  /\ pres.ok
            /\ pres.rest = SubSeq(tokens, k + 1, Len(tokens))
            /\ Len(flat) = k
            /\ \A i \in 1..k : ItemMatches(flat[i], tokens[i])
            /\ NoFunc(pres.exp)
            /\ (k = Len(tokens) => pres.rest = <<>>)

ParseFirstExpressionWitness ==
    /\ pc = "parsed"
    /\ tokens = <<<<"(">>, <<"a">>, <<"+", "1">>, <<")">>, <<")">>>>
    /\ pres = OkParse(List(<<Symbol(<<"a">>), Number(1)>>), <<<<")">>>>)

\* C4 as stated: a token sequence whose parentheses do not balance makes
\* parse fail, with one of the two reasons.
ParseRejectsUnbalanced ==
    (pc = "parsed" /\ ~Balanced(tokens)) =>
        /\ ~pres.ok
        /\ pres.reason \in {Reason("Could not find closing ')'"),
                            Reason("Unexpected ')'")}

\* C4 amended: parse fails exactly when the tokens do not begin with one
\* complete expression: "Unexpected ')'" for a leading ), "Could not find
\* closing ')'" when the leading ( is never closed, "Could not get token" for
\* no token at all.  Parentheses after the first complete expression are not
\* looked at: parse succeeds and returns them in the remainder.
ParseRejectsIncompleteFirst ==
    pc = "parsed" =>
        /\ pres.ok <=> FirstExprLen(tokens) > 0
        /\ tokens = <<>> => pres = Err(Reason("Could not get token"))
        /\ (tokens # <<>> /\ Head(tokens) = <<")">>)
              => pres = Err(Reason("Unexpected ')'"))
        /\ (tokens # <<>> /\ Head(tokens) = <<"(">> /\ FirstExprLen(tokens) = 0)
              => pres = Err(Reason("Could not find closing ')'"))

ParseRejectsWitness ==
    /\ pc = "parsed"
    /\ tokens = <<<<"(">>, <<"(">>, <<"a">>, <<")">>>>
    /\ pres = Err(Reason("Could not find closing ')'"))

(***************************************************************************)
(* parse and read_seq step by step.  xs is the slice the running call      *)
(* looks at; stack holds one frame per read_seq call in progress, with its *)
(* result vector and, in at, the slice its current loop iteration started  *)
(* from (kept for the properties only).  pc = "parse" is the entry of      *)
(* parse, pc = "read_seq" the head of read_seq's loop.                     *)
(***************************************************************************)
InitSteps ==
    /\ tokens \in SeqsUpTo(TokenAlphabet, MaxTokens)
    /\ xs = tokens
    /\ stack = <<>>
    /\ pc = "parse"
    /\ text = Unset /\ pres = Unset /\ exp = Unset /\ env = Unset
    /\ eres = Unset /\ out = Unset

\* `?` hands the failure to every caller in turn: the whole call chain ends.
Fail(r) ==
    /\ pres' = Err(r)
    /\ stack' = <<>>
    /\ pc' = "done"
    /\ UNCHANGED xs

\* A call returns Ok((e, rest)) over the frames stk: to the caller of the
\* outermost parse, or to read_seq's `let (exp, new_xs) = parse(&xs)?;
\* result.push(exp); xs = new_xs;`.
ReturnOk(stk, e, rest) ==
    IF stk = <<>>
    THEN /\ pres' = OkParse(e, rest)
         /\ stack' = <<>>
         /\ xs' = rest
         /\ pc' = "done"
    ELSE /\ stack' = [stk EXCEPT ![Len(stk)].result = Append(@, e)]
         /\ xs' = rest
         /\ pc' = "read_seq"
         /\ UNCHANGED pres

ParseEmpty ==
    /\ pc = "parse"
    /\ xs = <<>>
    /\ Fail(Reason("Could not get token"))
    /\ UNCHANGED <<text, tokens, exp, env, eres, out>>

ParseOpen ==
    /\ pc = "parse"
    /\ xs # <<>>
    /\ Head(xs) = <<"(">>
    /\ stack' = Append(stack, [result |-> <<>>, at |-> Tail(xs)])
    /\ xs' = Tail(xs)
    /\ pc' = "read_seq"
    /\ UNCHANGED <<text, tokens, pres, exp, env, eres, out>>

ParseUnexpectedClose ==
    /\ pc = "parse"
    /\ xs # <<>>
    /\ Head(xs) = <<")">>
    /\ Fail(Reason("Unexpected ')'"))
    /\ UNCHANGED <<text, tokens, exp, env, eres, out>>

ParseAtomKeepToken ==
    /\ pc = "parse"
    /\ xs # <<>>
    /\ Head(xs) \notin {<<"(">>, <<")">>}
    /\ ReturnOk(stack, parse_atom(Head(xs)), xs)
    /\ UNCHANGED <<text, tokens, exp, env, eres, out>>

ParseAtom ==
    /\ pc = "parse"
    /\ xs # <<>>
    /\ Head(xs) \notin {<<"(">>, <<")">>}
    /\ ReturnOk(stack, parse_atom(Head(xs)), Tail(xs))
    /\ UNCHANGED <<text, tokens, exp, env, eres, out>>

ReadSeqExhausted ==
    /\ pc = "read_seq"
    /\ xs = <<>>
    /\ Fail(Reason("Could not find closing ')'"))
    /\ UNCHANGED <<text, tokens, exp, env, eres, out>>

ReadSeqClose ==
    /\ pc = "read_seq"
    /\ xs # <<>>
    /\ Head(xs) = <<")">>
    /\ ReturnOk(SubSeq(stack, 1, Len(stack) - 1),
                List(stack[Len(stack)].result), Tail(xs))
    /\ UNCHANGED <<text, tokens, exp, env, eres, out>>

ReadSeqCallParse ==
    /\ pc = "read_seq"
    /\ xs # <<>>
    /\ Head(xs) # <<")">>
    /\ stack' = [stack EXCEPT ![Len(stack)].at = xs]
    /\ pc' = "parse"
    /\ UNCHANGED <<text, tokens, pres, exp, env, eres, out, xs>>

NextSteps ==
    \/ ParseEmpty
    \/ ParseOpen
    \/ ParseUnexpectedClose
    \/ ParseAtom
    \/ ReadSeqExhausted
    \/ ReadSeqClose
    \/ ReadSeqCallParse

\* The calls run to completion: nothing suspends them.
SpecSteps == InitSteps /\ [][NextSteps]_vars /\ WF_vars(NextSteps)

IsStrictSuffix(s, t) ==
    Len(s) < Len(t) /\ s = SubSeq(t, Len(t) - Len(s) + 1, Len(t))

\* The step by step run ends with what parse computes.
StepsAgreeWithParse == pc = "done" => pres = parse(tokens)

\* C10: parse terminates on every token sequence, with a tree or a Reason;
\* a successful parse returns a strict suffix of its input; every step of
\* parse that goes on (an atom returned, a list entered) consumes a token;
\* and whenever control comes back to the head of read_seq's loop the slice
\* is strictly shorter than the one that iteration started from.
ParseTerminates ==
    /\ <>(pc = "done")
    /\ [](pc = "done" => (pres.ok => IsStrictSuffix(pres.rest, tokens)))
    /\ [][(pc = "parse" /\ pc' # "done") => IsStrictSuffix(xs', xs)]_vars
    /\ [][(pc' = "read_seq" /\ Len(stack') <= Len(stack))
            => IsStrictSuffix(xs', stack'[Len(stack')].at)]_vars

ParseTerminatesWitness ==
    /\ pc = "done"
    /\ tokens = <<<<"(">>, <<"(">>, <<"a">>, <<")">>, <<")">>>>
    /\ pres = OkParse(List(<<List(<<Symbol(<<"a">>)>>)>>), <<>>)

(***************************************************************************)
(* default_env and the two native operations.  An Expr::Func holds a       *)
(* function pointer: fn names the closure it points to.                    *)
(***************************************************************************)
OkExpr(e) == [ok |-> TRUE, val |-> e]

parse_single_float(e) ==
    IF e.kind = "Number" THEN [ok |-> TRUE, num |-> e.num]
    ELSE Err(Reason("Expected a number"))

parse_list_of_floats(floats) ==
    IF \E i \in 1..Len(floats) : ~parse_single_float(floats[i]).ok
    THEN Err(Reason("Expected a number"))
    ELSE [ok |-> TRUE,
          nums |-> [i \in 1..Len(floats) |-> parse_single_float(floats[i]).num]]

RECURSIVE sum(_)
sum(floats) == IF floats = <<>> THEN 0 ELSE Head(floats) + sum(Tail(floats))

native_add(args) ==
    LET floats == parse_list_of_floats(args)
    IN  IF ~floats.ok THEN floats ELSE OkExpr(Number(sum(floats.nums)))

native_sub_negating(args) ==
    LET floats == parse_list_of_floats(args)
    IN  IF ~floats.ok THEN floats
        ELSE IF floats.nums = <<>>
        THEN Err(Reason("'-' requires at least one operand"))
        ELSE IF Len(floats.nums) = 1 THEN OkExpr(Number(0 - floats.nums[1]))
        ELSE OkExpr(Number(Head(floats.nums) - sum(Tail(floats.nums))))

native_sub(args) ==
    LET floats == parse_list_of_floats(args)
    IN  IF ~floats.ok THEN floats
        ELSE IF floats.nums = <<>>
        THEN Err(Reason("'-' requires at least one operand"))
        ELSE OkExpr(Number(Head(floats.nums) - sum(Tail(floats.nums))))

call(fn, args) == IF fn = "add" THEN native_add(args) ELSE native_sub(args)

default_env == (<<"+">> :> Func("add")) @@ (<<"-">> :> Func("sub"))

(***************************************************************************)
(* eval.  The result carries, beside the value or the reason, the Env as   *)
(* the call leaves it (eval holds it by &mut) and the calls made, in       *)
(* order: one "eval" entry per call of eval, one "apply" entry per         *)
(* invocation of a native operation (kept for the properties only).        *)
(***************************************************************************)
EvalCall(e) == [ev |-> "eval", fn |-> "", args |-> <<e>>]
ApplyCall(fn, args) == [ev |-> "apply", fn |-> fn, args |-> args]

EvalOk(v, en, cs) == [ok |-> TRUE, val |-> v, env |-> en, calls |-> cs]
EvalErr(r, en, cs) == [ok |-> FALSE, reason |-> r, env |-> en, calls |-> cs]

RECURSIVE eval(_, _), eval_args(_, _, _, _)

\* args.iter().map(|x| eval(x, env)).collect::<Result<Vec<Expr>>>(): the
\* arguments one after the other, stopping at the first failure.
eval_args_all(args, en, vals, cs) ==
    IF args = <<>> THEN [ok |-> TRUE, vals |-> vals, env |-> en, calls |-> cs]
    ELSE LET r == eval(Head(args), en)
             rest == eval_args(Tail(args), r.env, vals, cs \o r.calls)
         IN  IF ~r.ok THEN EvalErr(r.reason, rest.env, rest.calls)
             ELSE eval_args(Tail(args), r.env, Append(vals, r.val), cs \o r.calls)

eval_args(args, en, vals, cs) ==
    IF args = <<>> THEN [ok |-> TRUE, vals |-> vals, env |-> en, calls |-> cs]
    ELSE LET r == eval(Head(args), en)
         IN  IF ~r.ok THEN EvalErr(r.reason, r.env, cs \o r.calls)
             ELSE eval_args(Tail(args), r.env, Append(vals, r.val), cs \o r.calls)

eval_symbol_defining(symbol, en) ==
    IF symbol \in DOMAIN en THEN EvalOk(en[symbol], en, <<>>)
    ELSE EvalOk(Number(0), (symbol :> Number(0)) @@ en, <<>>)

eval_symbol(symbol, en) ==
    IF symbol \in DOMAIN en THEN EvalOk(en[symbol], en, <<>>)
    ELSE EvalErr(ReasonSym("Unexpected symbol", symbol), en, <<>>)

eval_list(list, en) ==
    IF list = <<>> THEN EvalErr(Reason("Expected non-empty list"), en, <<>>)
    ELSE LET op == eval(Head(list), en)
         IN  IF ~op.ok THEN op
             ELSE IF op.val.kind # "Func"
             THEN EvalErr(Reason("Operator must be a function"), op.env, op.calls)
             ELSE LET args == eval_args(Tail(list), op.env, <<>>, op.calls)
                  IN  IF ~args.ok THEN args
                      ELSE LET r == call(op.val.fn, args.vals)
                               cs == Append(args.calls,
                                            ApplyCall(op.val.fn, args.vals))
                           IN  IF r.ok THEN EvalOk(r.val, args.env, cs)
                               ELSE EvalErr(r.reason, args.env, cs)

eval_func_returned(e, en) == EvalOk(e, en, <<>>)

eval_func(e, en) == EvalErr(Reason("Cannot evaluate a function"), en, <<>>)

eval(e, en) ==
    LET r == CASE e.kind = "Symbol" -> eval_symbol(e.name, en)
               [] e.kind = "Number" -> EvalOk(e, en, <<>>)
               [] e.kind = "List" -> eval_list(e.items, en)
               [] e.kind = "Func" -> eval_func(e, en)
    IN  [r EXCEPT !.calls = <<EvalCall(e)>> \o @]

(***************************************************************************)
(* eval applied to an expression tree, against default_env().              *)
(*                                                                         *)
(* The trees: every tree of at most MaxNodes nodes over the leaves below   *)
(* (a Func leaf is what only a caller of eval can hand in, the parser      *)
(* builds none), and every arithmetic tree of at most MaxArith nodes:      *)
(* Number leaves and lists headed by the symbol + or -.                    *)
(***************************************************************************)
Leaves ==
    {Number(1), Symbol(<<"+">>), Symbol(<<"-">>), Symbol(<<"x">>), Func("add")}

Forests[m \in 0..MaxNodes] ==
    LET TreesOf(k) == IF k = 1 THEN Leaves \cup {List(<<>>)}
                      ELSE {List(f) : f \in Forests[k - 1]}
    IN  IF m = 0 THEN {<<>>}
        ELSE UNION {{<<t>> \o f : t \in TreesOf(k), f \in Forests[m - k]} :
                        k \in 1..m}

Trees == Leaves \cup {List(f) : f \in UNION {Forests[m] : m \in 0..(MaxNodes - 1)}}

ArithForests[m \in 0..MaxArith] ==
    LET TreesOf(k) ==
            IF k = 1 THEN {Number(1), Number(2)}
            ELSE {List(<<Symbol(op)>> \o f) :
                      op \in {<<"+">>, <<"-">>}, f \in ArithForests[k - 2]}
    IN  IF m = 0 THEN {<<>>}
        ELSE UNION {{<<t>> \o f : t \in TreesOf(k), f \in ArithForests[m - k]} :
                        k \in 1..m}

ArithTrees == UNION {{f[1] : f \in {g \in ArithForests[m] : Len(g) = 1}} :
                        m \in 1..MaxArith}

InitEval ==
    /\ exp \in Trees \cup ArithTrees
    /\ env = default_env
    /\ pc = "expr"
    /\ text = Unset /\ tokens = Unset /\ pres = Unset
    /\ eres = Unset /\ out = Unset /\ xs = Unset /\ stack = Unset

Eval ==
    /\ pc = "expr"
    /\ eres' = eval(exp, env)
    /\ env' = eres'.env
    /\ pc' = "evaluated"
    /\ UNCHANGED <<text, tokens, pres, exp, out, xs, stack>>

NextEval == Eval

SpecEval == InitEval /\ [][NextEval]_vars

(***************************************************************************)
(* Reference arithmetic on trees of Numbers and + / - lists.               *)
(***************************************************************************)
RECURSIVE IsArith(_)
IsArith(e) ==
    \/ e.kind = "Number"
    \/ /\ e.kind = "List"
       /\ e.items # <<>>
       /\ e.items[1] \in {Symbol(<<"+">>), Symbol(<<"-">>)}
       /\ \A i \in 2..Len(e.items) : IsArith(e.items[i])

\* Some - list of the tree has no argument.
RECURSIVE ArithFails(_)
ArithFails(e) ==
    /\ e.kind = "List"
    /\ \/ e.items = <<Symbol(<<"-">>)>>
       \/ \E i \in 2..Len(e.items) : ArithFails(e.items[i])

RECURSIVE ArithVal(_), ArithSum(_, _, _)
ArithSum(items, from, to) ==
    IF from > to THEN 0
    ELSE ArithVal(items[from]) + ArithSum(items, from + 1, to)
ArithVal(e) ==
    IF e.kind = "Number" THEN e.num
    ELSE IF e.items[1] = Symbol(<<"+">>) THEN ArithSum(e.items, 2, Len(e.items))
    ELSE ArithVal(e.items[2]) - ArithSum(e.items, 3, Len(e.items))

Outcome(r) ==
    IF r.ok THEN [ok |-> TRUE, val |-> r.val] ELSE [ok |-> FALSE, reason |-> r.reason]

\* C1: on a tree of Numbers and + / - lists, eval against default_env()
\* gives Number(sum of the arguments) for +, 0 for no argument, and
\* Number(first argument minus the sum of the others) for -, a single
\* argument unchanged; a - with no argument anywhere in the tree makes the
\* evaluation fail with "'-' requires at least one operand".
EvalArithmetic ==
    (pc = "evaluated" /\ IsArith(exp)) =>
        IF ArithFails(exp)
        THEN Outcome(eres) = Err(Reason("'-' requires at least one operand"))
        ELSE Outcome(eres) = OkExpr(Number(ArithVal(exp)))

EvalArithmeticWitness ==
    /\ pc = "evaluated"
    /\ exp = List(<<Symbol(<<"-">>), Number(2),
                    List(<<Symbol(<<"+">>), Number(1), Number(2), Number(2)>>)>>)
    /\ Outcome(eres) = OkExpr(Number(0 - 3))

RECURSIVE ConcatCalls(_, _, _)
ConcatCalls(rs, from, to) ==
    IF from > to THEN <<>> ELSE rs[from].calls \o ConcatCalls(rs, from + 1, to)

\* C2: evaluating a list is fail-fast in a fixed order.  An empty list fails
\* with "Expected non-empty list"; the operator is evaluated first and its
\* failure is the result; an operator that is no Func gives "Operator must be
\* a function" with no argument evaluated; the arguments are evaluated left
\* to right up to the first that fails, whose failure is the result; the
\* native operation is invoked only after every argument succeeded, with the
\* evaluated arguments in their order.
EvalFailFast ==
    (pc = "evaluated" /\ exp.kind = "List") =>
        LET items == exp.items
            n == Len(items) - 1
            op == eval(items[1], default_env)
            args == [i \in 1..n |-> eval(items[i + 1], default_env)]
            failing == {i \in 1..n : ~args[i].ok}
            first == CHOOSE i \in failing : \A j \in failing : i <= j
            last == IF failing = {} THEN n ELSE first
            made == (<<EvalCall(exp)>> \o op.calls) \o ConcatCalls(args, 1, last)
            vals == [i \in 1..n |-> args[i].val]
        IN  IF items = <<>>
            THEN /\ Outcome(eres) = Err(Reason("Expected non-empty list"))
                 /\ eres.calls = <<EvalCall(exp)>>
            ELSE IF ~op.ok
            THEN /\ Outcome(eres) = Outcome(op)
                 /\ eres.calls = <<EvalCall(exp)>> \o op.calls
            ELSE IF op.val.kind # "Func"
            THEN /\ Outcome(eres) = Err(Reason("Operator must be a function"))
                 /\ eres.calls = <<EvalCall(exp)>> \o op.calls
            ELSE IF failing # {}
            THEN /\ Outcome(eres) = Outcome(args[first])
                 /\ eres.calls = made
            ELSE /\ Outcome(eres) = call(op.val.fn, vals)
                 /\ eres.calls = Append(made, ApplyCall(op.val.fn, vals))

\* (+ 1 x 1): the failure of x is the result and the last argument is never
\* evaluated.
EvalFailFastWitness ==
    /\ pc = "evaluated"
    /\ exp = List(<<Symbol(<<"+">>), Number(1), Symbol(<<"x">>), Number(1)>>)
    /\ Outcome(eres) = Err(ReasonSym("Unexpected symbol", <<"x">>))
    /\ eres.calls = <<EvalCall(exp), EvalCall(Symbol(<<"+">>)),
                      EvalCall(Number(1)), EvalCall(Symbol(<<"x">>))>>

\* C5 as stated: a tree the parser can build never evaluates to a Func.
EvalNeverReturnsFunc ==
    (pc = "evaluated" /\ NoFunc(exp)) => (eres.ok => eres.val.kind # "Func")

\* C5 amended: an expression that is itself a Func fails with "Cannot
\* evaluate a function"; a tree the parser can build evaluates to a Func only
\* when it is a bare symbol bound in the Env, whose bound operation is then
\* the result; a Number evaluates to itself and a list to a failure or a
\* Number.
EvalReturnsFuncOnlyForBoundSymbol ==
    pc = "evaluated" =>
        /\ exp.kind = "Func"
              => Outcome(eres) = Err(Reason("Cannot evaluate a function"))
        /\ (NoFunc(exp) /\ eres.ok /\ eres.val.kind = "Func")
              => /\ exp.kind = "Symbol"
                 /\ exp.name \in DOMAIN default_env
                 /\ eres.val = default_env[exp.name]
        /\ (exp.kind = "Symbol" /\ exp.name \in DOMAIN default_env)
              => Outcome(eres) = OkExpr(default_env[exp.name])
        /\ (exp.kind = "List" /\ eres.ok) => eres.val.kind = "Number"

EvalReturnsFuncWitness ==
    /\ pc = "evaluated"
    /\ exp = Symbol(<<"+">>)
    /\ Outcome(eres) = OkExpr(Func("add"))

(***************************************************************************)
(* string_to_exp, get_line and run_repl.                                   *)
(*                                                                         *)
(* One action per way an iteration of run_repl's loop ends: the line is    *)
(* "quit" (break), the line evaluates and its value is printed, or         *)
(* string_to_exp fails and `?` returns the failure from run_repl.  text is *)
(* the line get_line returned, out the values printed so far, eres what    *)
(* the last string_to_exp call (or, once exited, run_repl) returned.       *)
(***************************************************************************)
string_to_exp(lexemes, en) ==
    LET parsed == parse(tokenize(lexemes))
    IN  IF ~parsed.ok THEN EvalErr(parsed.reason, en, <<>>)
        ELSE eval(parsed.exp, en)

RECURSIVE trim_start(_)
trim_start(s) ==
    IF s # <<>> /\ Head(s) \in Whitespace THEN trim_start(Tail(s)) ELSE s

RECURSIVE trim_end(_)
trim_end(s) ==
    IF s # <<>> /\ s[Len(s)] \in Whitespace
    THEN trim_end(SubSeq(s, 1, Len(s) - 1)) ELSE s

trim(s) == trim_end(trim_start(s))

Quit == <<"q", "u", "i", "t">>

\* What stdin may hold: the lines of a session, and the empty read at the
\* end of the input.
StdinLines ==
    { Quit,
      <<" ", "q", "u", "i", "t", "\t">>,
      <<"q", "u", "i", "t", " ", "1">>,
      <<"(", "+", " ", "1", " ", "2", ")">>,
      <<"(", "+", " ", "1", " ", "2", ")", ")">>,
      <<" ", "(", "-", " ", "2", ")">>,
      <<"+">>,
      <<"+", "1">>,
      <<"x">>,
      <<"(", "+", " ", "1">>,
      <<")">>,
      <<"(", "1", " ", "2", ")">>,
      <<>> }

get_line(raw) == trim(raw)

InitRepl ==
    /\ env = default_env
    /\ out = <<>>
    /\ pc = "prompt"
    /\ text = Unset /\ tokens = Unset /\ pres = Unset /\ exp = Unset
    /\ eres = Unset /\ xs = Unset /\ stack = Unset

ReplQuit ==
    /\ pc = "prompt"
    /\ \E raw \in StdinLines :
          /\ get_line(raw) = Quit
          /\ text' = get_line(raw)
    /\ pc' = "exited"
    /\ eres' = [ok |-> TRUE]
    /\ UNCHANGED <<tokens, pres, exp, env, out, xs, stack>>

ReplPrint ==
    /\ pc = "prompt"
    /\ Len(out) < MaxLines
    /\ \E raw \in StdinLines :
          LET line == get_line(raw)
              r == string_to_exp(line, env)
          IN  /\ line # Quit
              /\ r.ok
              /\ text' = line
              /\ tokens' = tokenize(line)
              /\ pres' = parse(tokenize(line))
              /\ exp' = parse(tokenize(line)).exp
              /\ eres' = r
              /\ env' = r.env
              /\ out' = Append(out, Display(r.val))
    /\ pc' = "prompt"
    /\ UNCHANGED <<xs, stack>>

ReplError ==
    /\ pc = "prompt"
    /\ \E raw \in StdinLines :
          LET line == get_line(raw)
              r == string_to_exp(line, env)
          IN  /\ line # Quit
              /\ ~r.ok
              /\ text' = line
              /\ tokens' = tokenize(line)
              /\ pres' = parse(tokenize(line))
              /\ exp' = IF parse(tokenize(line)).ok
                        THEN parse(tokenize(line)).exp ELSE Unset
              /\ eres' = r
              /\ env' = r.env
    /\ pc' = "exited"
    /\ UNCHANGED <<out, xs, stack>>

NextRepl == ReplQuit \/ ReplPrint \/ ReplError

SpecRepl == InitRepl /\ [][NextRepl]_vars

\* C6: evaluation never changes the Env: after every call of string_to_exp,
\* failed or not, the Env is the mapping default_env() built, and the tree
\* that was evaluated is still the tree parse returned.
EnvNeverChanges ==
    /\ env = default_env
    /\ DOMAIN env = {<<"+">>, <<"-">>}
    /\ env[<<"+">>] = Func("add") /\ env[<<"-">>] = Func("sub")
    /\ (text # Quit /\ pres # Unset /\ pres.ok)
          => (exp = pres.exp /\ eres.env = default_env)

\* A failed call after two successful ones.
EnvNeverChangesWitness ==
    /\ pc = "exited"
    /\ Len(out) = 2
    /\ text = <<"x">>
    /\ ~eres.ok

\* C9: a line that fails does not end the session: the loop ends only when
\* the line read is "quit".
ReplEndsOnlyOnQuit == pc = "exited" => text = Quit

=============================================================================
